---- MODULE Spec2Model ----
(***************************************************************************)
(* Model of the Usuario registration / listing views (app/views.py) and    *)
(* their routes (app/urls.py).                                             *)
(*                                                                         *)
(* Each request slot runs one handler invocation.  A step of the model is  *)
(* one access to the persistence layer or one statement of a view; code    *)
(* between two such points only touches the request's own locals.  The     *)
(* store of Usuario rows is the only state shared between requests.        *)
(***************************************************************************)
EXTENDS Integers, Sequences, FiniteSets, TLC

\* Number of requests served in one behaviour (they may overlap in time).
NumReq == 3

Requests == 1..NumReq

\* HTTP methods a client may send.
Methods == {"GET", "POST", "DELETE"}

\* Field values a client may submit, and those the Usuario field
\* constraints accept.
Values == {"ana", "bia", "???"}
Accepted == {"ana", "bia"}

\* A submitted payload (request.POST).
Payloads == [val : Values]

\* request.POST of a request that carries no form data.
NoData == [val |-> ""]

\* app/urls.py: the route table.
urlpatterns ==
    << [path |-> "cadastrar/", view |-> "cadastrar_usuario", name |-> "cadastrar_usuario"],
       [path |-> "usuarios/",  view |-> "listar_usuarios",  name |-> "listar_usuarios"] >>

Paths == { urlpatterns[i].path : i \in DOMAIN urlpatterns }

\* URL resolution: the view routed for a path.
resolve(p) == (CHOOSE u \in { urlpatterns[i] : i \in DOMAIN urlpatterns } : u.path = p).view

\* Reverse resolution: the path routed under a route name.
reverse(n) == (CHOOSE u \in { urlpatterns[i] : i \in DOMAIN urlpatterns } : u.name = n).path

(***************************************************************************)
(* The Usuario table and the form bound to it.                             *)
(***************************************************************************)

\* A Usuario instance that has not been written: no primary key yet.
NewUsuario(v) == [id |-> 0, val |-> v]

\* Primary key the table gives to the next inserted row.
NextId(table) == IF table = {} THEN 1
                 ELSE 1 + (CHOOSE n \in { u.id : u \in table } :
                              \A u \in table : u.id <= n)

\* INSERT of one Usuario row.
Insert(table, u) == table \cup { [u EXCEPT !.id = NextId(table)] }

\* UsuarioForm(request.POST): a form bound to submitted data, not yet validated.
BoundForm(d) == [is_bound |-> TRUE, data |-> d, errors |-> {},
                 instance |-> NewUsuario("")]

\* UsuarioForm(): an empty, unbound form.
UnboundForm == [is_bound |-> FALSE, data |-> NoData, errors |-> {},
                instance |-> NewUsuario("")]

\* form.is_valid(): the result of validating the bound data.
is_valid(f) == f.is_bound /\ f.data.val \in Accepted

\* The form after is_valid() ran: field errors recorded, or the instance
\* built from the cleaned data.
Cleaned(f) == IF is_valid(f)
              THEN [f EXCEPT !.instance = NewUsuario(f.data.val)]
              ELSE [f EXCEPT !.errors = {"val"}]

(***************************************************************************)
(* Responses.                                                              *)
(***************************************************************************)

NoResponse == [kind |-> "none"]

\* redirect(name): a redirect to the path routed under that name.
redirect(n) == [kind |-> "redirect", location |-> reverse(n)]

\* render(request, template, context)
render(t, c) == [kind |-> "render", template |-> t, context |-> c]

\* An exception left the view: the framework's error response.
Fault == [kind |-> "fault"]

(***************************************************************************)
(* State.                                                                  *)
(***************************************************************************)
VARIABLES
    store,      \* the rows of the Usuario table
    pc,         \* per request: where its handler stands
    request,    \* per request: path, method and POST data
    form,       \* per request: the view's local `form`
    response    \* per request: what the view returned

vars == << store, pc, request, form, response >>

NoRequest == [path |-> "", method |-> "", POST |-> NoData]

Init ==
    /\ store = {}
    /\ pc = [r \in Requests |-> "idle"]
    /\ request = [r \in Requests |-> NoRequest]
    /\ form = [r \in Requests |-> UnboundForm]
    /\ response = [r \in Requests |-> NoResponse]

\* The view serving request r.
View(r) == resolve(request[r].path)

\* A request arrives and the router hands it to the view of its path.
\* Requests are numbered in the order they arrive.
Arrive(r) ==
    /\ pc[r] = "idle"
    /\ \A q \in Requests : q < r => pc[q] # "idle"
    /\ \E p \in Paths, m \in Methods, d \in Payloads :
          request' = [request EXCEPT ![r] =
              [path |-> p, method |-> m,
               POST |-> IF m = "POST" THEN d ELSE NoData]]
    /\ pc' = [pc EXCEPT ![r] = "view"]
    /\ UNCHANGED << store, form, response >>

(***************************************************************************)
(* cadastrar_usuario                                                       *)
(***************************************************************************)

\* Faulty variant of the method test: anything but GET counts as a submission.
IsNotGet(r) == request[r].method # "GET"

\* if request.method == 'POST'
IsPost(r) == request[r].method = "POST"

\* Faulty variant of the POST branch: after a failed validation the bound
\* form is replaced by a fresh empty one.
CadPostDropsForm(r) ==
    /\ pc[r] = "view"
    /\ View(r) = "cadastrar_usuario"
    /\ request[r].method = "POST"
    /\ LET f == Cleaned(BoundForm(request[r].POST)) IN
          /\ form' = [form EXCEPT ![r] = IF is_valid(f) THEN f ELSE UnboundForm]
          /\ pc' = [pc EXCEPT ![r] = IF is_valid(f) THEN "save" ELSE "render"]
    /\ UNCHANGED << store, request, response >>

\* POST branch: bind the form and validate it; a valid form goes on to
\* save(), an invalid one falls through to the final render.
CadPost(r) ==
    /\ pc[r] = "view"
    /\ View(r) = "cadastrar_usuario"
    /\ IsPost(r)
    /\ LET f == Cleaned(BoundForm(request[r].POST)) IN
          /\ form' = [form EXCEPT ![r] = f]
          /\ pc' = [pc EXCEPT ![r] = IF is_valid(f) THEN "save" ELSE "render"]
    /\ UNCHANGED << store, request, response >>

\* Faulty variant of the else branch: the form is bound to request.POST and
\* validated although nothing was submitted.
CadOtherBinds(r) ==
    /\ pc[r] = "view"
    /\ View(r) = "cadastrar_usuario"
    /\ request[r].method # "POST"
    /\ form' = [form EXCEPT ![r] = Cleaned(BoundForm(request[r].POST))]
    /\ pc' = [pc EXCEPT ![r] = "render"]
    /\ UNCHANGED << store, request, response >>

\* else branch: an empty form, then the final render.
CadOther(r) ==
    /\ pc[r] = "view"
    /\ View(r) = "cadastrar_usuario"
    /\ ~IsPost(r)
    /\ form' = [form EXCEPT ![r] = UnboundForm]
    /\ pc' = [pc EXCEPT ![r] = "render"]
    /\ UNCHANGED << store, request, response >>

\* Faulty variant of save: the instance is written twice.
CadSaveTwice(r) ==
    /\ pc[r] = "save"
    /\ store' = Insert(Insert(store, form[r].instance), form[r].instance)
    /\ form' = [form EXCEPT ![r].instance.id = NextId(store)]
    /\ pc' = [pc EXCEPT ![r] = "redirect"]
    /\ UNCHANGED << request, response >>

\* Faulty variant of save: once the table has a row, the newest row is
\* updated in place instead of a new one being inserted.
CadSaveOverwrites(r) ==
    /\ pc[r] = "save"
    /\ LET last == NextId(store) - 1 IN
          /\ store' = IF store = {} THEN Insert(store, form[r].instance)
                      ELSE { u \in store : u.id # last }
                              \cup { [form[r].instance EXCEPT !.id = last] }
          /\ form' = [form EXCEPT ![r].instance.id =
                          IF store = {} THEN NextId(store) ELSE last]
    /\ pc' = [pc EXCEPT ![r] = "redirect"]
    /\ UNCHANGED << request, response >>

\* Faulty variant of save: the primary key is read in one step and the row
\* written under it in a later one, replacing whatever row holds that key.
CadSaveRacy(r) ==
    /\ pc[r] = "save"
    /\ \/ /\ form[r].instance.id = 0
          /\ form' = [form EXCEPT ![r].instance.id = NextId(store)]
          /\ UNCHANGED << store, pc >>
       \/ /\ form[r].instance.id # 0
          /\ store' = { u \in store : u.id # form[r].instance.id }
                         \cup { form[r].instance }
          /\ pc' = [pc EXCEPT ![r] = "redirect"]
          /\ UNCHANGED form
    /\ UNCHANGED << request, response >>

\* form.save() succeeds: one row is inserted and the instance gets its key.
CadSave(r) ==
    /\ pc[r] = "save"
    /\ store' = Insert(store, form[r].instance)
    /\ form' = [form EXCEPT ![r].instance.id = NextId(store)]
    /\ pc' = [pc EXCEPT ![r] = "redirect"]
    /\ UNCHANGED << request, response >>

\* Faulty variant of the failing save: the exception is caught and the form
\* page is rendered as if validation had failed.
CadSaveFaultCaught(r) ==
    /\ pc[r] = "save"
    /\ pc' = [pc EXCEPT ![r] = "render"]
    /\ UNCHANGED << store, request, form, response >>

\* form.save() raises (the write is rejected or the database is down): the
\* view has no handler, so the exception leaves it.
CadSaveFault(r) ==
    /\ pc[r] = "save"
    /\ response' = [response EXCEPT ![r] = Fault]
    /\ pc' = [pc EXCEPT ![r] = "done"]
    /\ UNCHANGED << store, request, form >>

\* return redirect('listar_usuarios')
CadRedirect(r) ==
    /\ pc[r] = "redirect"
    /\ response' = [response EXCEPT ![r] = redirect("listar_usuarios")]
    /\ pc' = [pc EXCEPT ![r] = "done"]
    /\ UNCHANGED << store, request, form >>

\* return render(request, 'cadastrar_usuario.html', {'form': form})
CadRender(r) ==
    /\ pc[r] = "render"
    /\ response' = [response EXCEPT ![r] =
           render("cadastrar_usuario.html", [form |-> form[r]])]
    /\ pc' = [pc EXCEPT ![r] = "done"]
    /\ UNCHANGED << store, request, form >>

(***************************************************************************)
(* listar_usuarios                                                         *)
(***************************************************************************)

\* Faulty variant of all(): the query is sliced to its first row.
allLimited(table) == { u \in table : u.id <= 1 }

\* Usuario.objects.all(): every row, in no specified order.
all(table) == table

\* Faulty variant of the listing: a DELETE request empties the table.
ListarUsuariosDeletes(r) ==
    /\ pc[r] = "view"
    /\ View(r) = "listar_usuarios"
    /\ response' = [response EXCEPT ![r] =
           render("listar_usuarios.html", [usuarios |-> store])]
    /\ store' = IF request[r].method = "DELETE" THEN {} ELSE store
    /\ pc' = [pc EXCEPT ![r] = "done"]
    /\ UNCHANGED << request, form >>

\* Faulty variant of the listing: an empty table raises instead of rendering.
ListarUsuariosFaultsEmpty(r) ==
    /\ pc[r] = "view"
    /\ View(r) = "listar_usuarios"
    /\ response' = [response EXCEPT ![r] =
           IF store = {} THEN Fault
           ELSE render("listar_usuarios.html", [usuarios |-> store])]
    /\ pc' = [pc EXCEPT ![r] = "done"]
    /\ UNCHANGED << store, request, form >>

\* The query set is lazy: the rows are read when the template is rendered,
\* so building it and rendering it are one read of the table.
ListarUsuarios(r) ==
    /\ pc[r] = "view"
    /\ View(r) = "listar_usuarios"
    /\ response' = [response EXCEPT ![r] =
           render("listar_usuarios.html", [usuarios |-> all(store)])]
    /\ pc' = [pc EXCEPT ![r] = "done"]
    /\ UNCHANGED << store, request, form >>

Next ==
    \E r \in Requests :
        \/ Arrive(r)
        \/ CadPost(r)
        \/ CadOther(r)
        \/ CadSave(r)
        \/ CadSaveFault(r)
        \/ CadRedirect(r)
        \/ CadRender(r)
        \/ ListarUsuarios(r)

Spec == Init /\ [][Next]_vars

(***************************************************************************)
(* Vocabulary of the properties.                                           *)
(***************************************************************************)

Arrived(r) == pc[r] # "idle"

IsCad(r)  == Arrived(r) /\ View(r) = "cadastrar_usuario"
IsList(r) == Arrived(r) /\ View(r) = "listar_usuarios"

\* r is a registration POST whose payload passes / fails validation.
ValidPost(r) ==
    IsCad(r) /\ request[r].method = "POST" /\ request[r].POST.val \in Accepted
InvalidPost(r) ==
    IsCad(r) /\ request[r].method = "POST" /\ request[r].POST.val \notin Accepted

\* r's handler takes a step.
Steps(r) == Arrived(r) /\ pc'[r] # pc[r]

Done(r) == pc[r] = "done"
AllDone == \A r \in Requests : Done(r)

\* r's form.save() has returned: its instance carries a primary key.
Saved(r) == form[r].instance.id # 0

\* The response every registration page carries for a given form.
FormPage(f) == [kind |-> "render", template |-> "cadastrar_usuario.html",
                context |-> [form |-> f]]

\* The response of the listing page showing exactly the rows in us.
ListPage(us) == [kind |-> "render", template |-> "listar_usuarios.html",
                 context |-> [usuarios |-> us]]

\* The redirect to the listing endpoint.
ToListing == [kind |-> "redirect", location |-> "usuarios/"]

(***************************************************************************)
(* C1 as stated: every registration POST whose payload passes validation   *)
(* ends with its record in the store and a redirect to the listing.        *)
(* Refuted by a save that raises.                                          *)
(***************************************************************************)
C1_EveryValidPostRedirects ==
    \A r \in Requests :
        (ValidPost(r) /\ Done(r)) =>
            /\ response[r] = ToListing
            /\ form[r].instance \in store

(***************************************************************************)
(* C1, amended: a registration POST whose payload passes validation and    *)
(* whose save does not raise adds exactly one row to the store, the row    *)
(* built from the submitted payload, no other step of the request changes  *)
(* the store, and the response is a redirect to the path routed under      *)
(* 'listar_usuarios', which is usuarios/, served by the listing view.      *)
(***************************************************************************)
C1_ValidPostAddsOneAndRedirects ==
    /\ [][\A r \in Requests :
            /\ (ValidPost(r) /\ Steps(r) /\ pc[r] = "save" /\ pc'[r] # "done") =>
                  \E u \in store' :
                      /\ u \notin store
                      /\ store' = store \cup {u}
                      /\ Cardinality(store') = Cardinality(store) + 1
                      /\ u.val = request[r].POST.val
                      /\ u = form'[r].instance
            /\ (ValidPost(r) /\ Steps(r) /\ pc[r] # "save") => store' = store
         ]_vars
    /\ [](\A r \in Requests :
            (ValidPost(r) /\ Done(r) /\ response[r] # Fault) =>
                /\ response[r] = ToListing
                /\ response[r].location = reverse("listar_usuarios")
                /\ resolve(response[r].location) = "listar_usuarios"
                /\ form[r].instance \in store
                /\ form[r].instance.val = request[r].POST.val)

\* A valid submission has been saved and answered while the store already
\* held another row.
C1_Witness ==
    \E r \in Requests :
        /\ ValidPost(r) /\ Done(r) /\ response[r] = ToListing
        /\ form[r].instance \in store
        /\ form[r].instance.id > 1

(***************************************************************************)
(* C2: a registration POST whose payload fails validation never changes    *)
(* the store, and ends with a normal response (no redirect, no fault): the *)
(* registration page rendered from the bound form, which carries the       *)
(* submitted data and the validation errors.                               *)
(***************************************************************************)
C2_InvalidPostRerendersBoundForm ==
    /\ [][\A r \in Requests : (InvalidPost(r) /\ Steps(r)) => store' = store]_vars
    /\ [](\A r \in Requests :
            InvalidPost(r) =>
                /\ pc[r] \in {"view", "render", "done"}
                /\ ~Saved(r)
                /\ Done(r) =>
                      /\ response[r].kind = "render"
                      /\ response[r].template = "cadastrar_usuario.html"
                      /\ response[r].context.form.is_bound
                      /\ response[r].context.form.data = request[r].POST
                      /\ response[r].context.form.errors # {}
                      /\ response[r] = FormPage(form[r]))

\* An invalid submission has been answered while the store held a row.
C2_Witness ==
    \E r \in Requests :
        /\ InvalidPost(r) /\ Done(r)
        /\ response[r].kind = "render"
        /\ response[r].context.form.data.val = "???"
        /\ store # {}

(***************************************************************************)
(* C3: a GET to the registration handler never changes the store, never    *)
(* validates or saves, and is answered with the registration page rendered *)
(* from an empty, unbound form.                                            *)
(***************************************************************************)
C3_GetNeverMutates ==
    /\ [][\A r \in Requests :
            (IsCad(r) /\ request[r].method = "GET" /\ Steps(r)) => store' = store]_vars
    /\ [](\A r \in Requests :
            (IsCad(r) /\ request[r].method = "GET") =>
                /\ pc[r] \in {"view", "render", "done"}
                /\ ~form[r].is_bound /\ form[r].errors = {} /\ ~Saved(r)
                /\ Done(r) => response[r] = FormPage(UnboundForm))

\* A GET to the registration handler has been answered while the store held
\* a row.
C3_Witness ==
    \E r \in Requests :
        /\ IsCad(r) /\ request[r].method = "GET" /\ Done(r)
        /\ response[r] = FormPage(UnboundForm)
        /\ store # {}

(***************************************************************************)
(* C4: the listing handler answers with exactly the rows persisted when it *)
(* reads the table, unfiltered and unlimited; in particular it shows the   *)
(* record of every registration saved before that read.                    *)
(***************************************************************************)
C4_ListingShowsAllRecords ==
    [][\A r \in Requests :
          (IsList(r) /\ Steps(r)) =>
              /\ response'[r] = ListPage(store)
              /\ \A q \in Requests :
                    (IsCad(q) /\ Saved(q)) =>
                        form[q].instance \in response'[r].context.usuarios
      ]_vars

\* Two registrations created records A and B, and a later listing shows both.
C4_Witness ==
    \E r, a, b \in Requests :
        /\ a < b /\ b < r
        /\ ValidPost(a) /\ ValidPost(b) /\ IsList(r)
        /\ Done(a) /\ Done(b) /\ Done(r)
        /\ request[r].method = "GET"
        /\ form[a].instance # form[b].instance
        /\ response[r] = ListPage({form[a].instance, form[b].instance})

(***************************************************************************)
(* C5: a persisted row is never updated or deleted: the store only grows,  *)
(* every save adds a row with a fresh key, and the number of rows always   *)
(* equals the number of registration POSTs that passed validation and were *)
(* saved.                                                                  *)
(***************************************************************************)
C5_StoreOnlyGrows ==
    /\ [][/\ store \subseteq store'
          /\ \A u \in store' \ store : \A v \in store : v.id # u.id
          /\ Cardinality(store') <= Cardinality(store) + 1]_vars
    /\ [](/\ Cardinality(store) = Cardinality({ r \in Requests : Saved(r) })
          /\ \A r \in Requests : Saved(r) => (ValidPost(r) /\ form[r].instance \in store))

\* Every request was a saved registration: the store holds one row each.
C5_Witness ==
    /\ \A r \in Requests : ValidPost(r) /\ Saved(r) /\ Done(r)
    /\ Cardinality(store) = NumReq

(***************************************************************************)
(* C6: the listing handler is read-only: whatever the HTTP method, no step *)
(* of a listing request changes the store.                                 *)
(***************************************************************************)
C6_ListingReadOnly ==
    [][\A r \in Requests : (IsList(r) /\ Steps(r)) => store' = store]_vars

\* Listing requests sent with DELETE and with POST have been answered while
\* the store held a row.
C6_Witness ==
    \E r, q \in Requests :
        /\ IsList(r) /\ Done(r) /\ request[r].method = "DELETE"
        /\ IsList(q) /\ Done(q) /\ request[q].method = "POST"
        /\ store # {}

(***************************************************************************)
(* C7: a listing request that finds the store empty is answered with the   *)
(* rendered listing page holding zero user rows; it never ends in a fault. *)
(***************************************************************************)
C7_EmptyListingRenders ==
    /\ [][\A r \in Requests :
            (IsList(r) /\ Steps(r) /\ store = {}) =>
                /\ pc'[r] = "done"
                /\ response'[r].kind = "render"
                /\ response'[r].template = "listar_usuarios.html"
                /\ response'[r].context.usuarios = {}]_vars
    /\ [](\A r \in Requests : (IsList(r) /\ Done(r)) => response[r] # Fault)

\* A listing of the empty store has been answered.
C7_Witness ==
    \E r \in Requests :
        /\ IsList(r) /\ Done(r) /\ store = {}
        /\ response[r] = ListPage({})

(***************************************************************************)
(* C8: when the save of a validated registration POST fails, the request   *)
(* ends in the fault outcome (neither the redirect nor the re-rendered     *)
(* form) and the store is left as it was; the only registration POSTs      *)
(* answered with the rendered form are those that failed validation.       *)
(***************************************************************************)
C8_FailedSavePropagates ==
    /\ [][\A r \in Requests :
            (IsCad(r) /\ Steps(r) /\ pc[r] = "save" /\ form'[r].instance.id = 0) =>
                /\ pc'[r] = "done"
                /\ response'[r] = Fault
                /\ store' = store]_vars
    /\ [](\A r \in Requests :
            /\ (Done(r) /\ response[r] = Fault) =>
                  (ValidPost(r) /\ ~Saved(r) /\ form[r].instance \notin store)
            /\ (IsCad(r) /\ request[r].method = "POST" /\ Done(r)
                   /\ response[r].kind = "render") =>
                  (InvalidPost(r) /\ response[r].context.form.errors # {}))

\* A validated registration ended in the fault outcome while another one
\* had been saved.
C8_Witness ==
    \E r \in Requests :
        /\ ValidPost(r) /\ Done(r) /\ response[r] = Fault
        /\ store # {}
        /\ \A u \in store : u.val # request[r].POST.val

\* The registrations with a valid payload, and those among them whose save
\* raised.
ValidPosts  == { r \in Requests : ValidPost(r) }
FaultedPosts == { r \in ValidPosts : response[r] = Fault }

(***************************************************************************)
(* C9 as stated: once all requests are complete, the store holds exactly   *)
(* one row per valid registration POST, each of them got the redirect and  *)
(* each produced its record.  Refuted by a save that raises.               *)
(***************************************************************************)
C9_EveryValidPostStored ==
    AllDone =>
        /\ Cardinality(store) = Cardinality(ValidPosts)
        /\ \A r \in ValidPosts :
              response[r] = ToListing /\ form[r].instance \in store

(***************************************************************************)
(* C9, amended: for every interleaving of registration POSTs with valid    *)
(* payloads and listing requests, once all requests are complete the store *)
(* holds exactly one row for each valid submission whose save did not      *)
(* raise, all these rows are distinct, each such submission got the        *)
(* redirect, and a valid submission is without its record only when its    *)
(* save raised, in which case it got the fault outcome.                    *)
(***************************************************************************)
C9_ConcurrentPostsAllStored ==
    AllDone =>
        /\ Cardinality(store) = Cardinality(ValidPosts \ FaultedPosts)
        /\ store = { form[r].instance : r \in ValidPosts \ FaultedPosts }
        /\ \A r \in ValidPosts \ FaultedPosts :
              /\ response[r] = ToListing
              /\ form[r].instance \in store
              /\ form[r].instance.val = request[r].POST.val
        /\ \A r, q \in ValidPosts \ FaultedPosts :
              r # q => form[r].instance.id # form[q].instance.id
        /\ \A r \in FaultedPosts : ~Saved(r)

\* All requests are complete; two valid registrations overlapped (the one
\* that arrived later was saved first) and a listing read the table between
\* their saves.
C9_Witness ==
    /\ AllDone
    /\ \E a, b, l \in Requests :
          /\ a < b
          /\ ValidPost(a) /\ ValidPost(b) /\ IsList(l)
          /\ response[a] = ToListing /\ response[b] = ToListing
          /\ form[b].instance.id < form[a].instance.id
          /\ response[l] = ListPage({form[b].instance})
          /\ Cardinality(store) = 2

(***************************************************************************)
(* C10: the registration handler treats every method other than POST as it *)
(* treats GET: no step of such a request changes the store, no validation  *)
(* or save happens, and the answer is the registration page rendered from  *)
(* an empty unbound form; only a step of a registration request whose      *)
(* method is POST ever changes the store.                                  *)
(***************************************************************************)
C10_OnlyPostWrites ==
    /\ [][/\ \A r \in Requests :
               (IsCad(r) /\ request[r].method # "POST" /\ Steps(r)) => store' = store
          /\ store' # store =>
               \E r \in Requests :
                   IsCad(r) /\ request[r].method = "POST" /\ Steps(r)]_vars
    /\ [](\A r \in Requests :
            (IsCad(r) /\ request[r].method # "POST") =>
                /\ pc[r] \in {"view", "render", "done"}
                /\ form[r] = UnboundForm
                /\ Done(r) => response[r] = FormPage(UnboundForm))

\* A DELETE to the registration handler has been answered with the empty
\* form while the store held a row.
C10_Witness ==
    \E r \in Requests :
        /\ IsCad(r) /\ request[r].method = "DELETE" /\ Done(r)
        /\ response[r] = FormPage(UnboundForm)
        /\ store # {}

====
